---- MODULE Spec2Model ----
(***************************************************************************)
(* renderHTML: the element (node) of attributes.go, its four lists, the    *)
(* add* operations, the get* formatters and String (render), the untagged  *)
(* container, the <html> root wrapper and the text entities of strings.go. *)
(*                                                                         *)
(* A Go string is a sequence of one-character strings, so that TrimSpace,  *)
(* the last-byte test of addStyles and the joins are computed, not assumed.*)
(* A pointer to an element is its index in the heap.                       *)
(***************************************************************************)
EXTENDS Integers, Sequences, FiniteSets, TLC

VARIABLES heap, ret, inserted, ops

vars == <<heap, ret, inserted, ops>>

\* ------------------------------------------------------------------ bounds
\* Number of elements a run constructs.
MaxNodes == 2
\* Number of mutating calls (constructors and add* calls) of a run.
MaxOps == 3

\* ----------------------------------------------------------- Go's strings
\* strings.TrimSpace removes leading and trailing white space.
IsSpace(c) == c \in {" ", "\t", "\n"}

RECURSIVE TrimLeft(_)
TrimLeft(s) == IF s # <<>> /\ IsSpace(Head(s)) THEN TrimLeft(Tail(s)) ELSE s

RECURSIVE TrimRight(_)
TrimRight(s) ==
    IF s # <<>> /\ IsSpace(s[Len(s)]) THEN TrimRight(SubSeq(s, 1, Len(s) - 1)) ELSE s

TrimSpace(s) == TrimRight(TrimLeft(s))

\* strings.Join(elems, sep)
RECURSIVE Join(_, _)
Join(elems, sep) ==
    IF elems = <<>> THEN <<>>
    ELSE IF Len(elems) = 1 THEN elems[1]
    ELSE elems[1] \o sep \o Join(Tail(elems), sep)

\* strconv.FormatBool
FormatBool(b) == IF b THEN <<"t", "r", "u", "e">> ELSE <<"f", "a", "l", "s", "e">>

\* Decimal text of an integer, as %v prints an int.
Digit(d) == <<"0", "1", "2", "3", "4", "5", "6", "7", "8", "9">>[d + 1]

RECURSIVE Itoa(_)
Itoa(i) ==
    IF i < 0 THEN <<"-">> \o Itoa(0 - i)
    ELSE IF i < 10 THEN <<Digit(i)>>
    ELSE Itoa(i \div 10) \o <<Digit(i % 10)>>

\* ------------------------------------------------------------ any values
\* A value of Go's type any, as the library's switches tell them apart.
AnyNil == [t |-> "nil"]
AnyString(s) == [t |-> "string", s |-> s]
AnyBool(b) == [t |-> "bool", b |-> b]
AnyInt(i) == [t |-> "int", i |-> i]
\* A pointer to a concrete element (DivElement, HtmlElement, ...): a fmt.Stringer.
Ref(id) == [t |-> "Stringer", k |-> "el", ref |-> id, content |-> <<>>]
\* The two text entities of strings.go: fmt.Stringers too.
rawStringEntity(s) == [t |-> "Stringer", k |-> "raw", ref |-> 0, content |-> s]
escapeStringEntity(s) == [t |-> "Stringer", k |-> "esc", ref |-> 0, content |-> s]

\* fmt.Sprintf("%v", v) for the values above that are no Stringer.
FormatV(v) ==
    CASE v.t = "string" -> v.s
      [] v.t = "bool" -> FormatBool(v.b)
      [] v.t = "int" -> Itoa(v.i)
      [] OTHER -> <<"<", "n", "i", "l", ">">>

\* EscapeChar with the named references &quot; and &apos; for the two quotes.
EscapeChar_Named(c) ==
    CASE c = "&" -> <<"&", "a", "m", "p", ";">>
      [] c = "<" -> <<"&", "l", "t", ";">>
      [] c = ">" -> <<"&", "g", "t", ";">>
      [] c = "\"" -> <<"&", "q", "u", "o", "t", ";">>
      [] c = "'" -> <<"&", "a", "p", "o", "s", ";">>
      [] OTHER -> <<c>>

\* htmlEscaper: one pass, each reserved character replaced by its reference.
EscapeChar(c) ==
    CASE c = "&" -> <<"&", "a", "m", "p", ";">>
      [] c = "<" -> <<"&", "l", "t", ";">>
      [] c = ">" -> <<"&", "g", "t", ";">>
      [] c = "\"" -> <<"&", "#", "3", "4", ";">>
      [] c = "'" -> <<"&", "#", "3", "9", ";">>
      [] OTHER -> <<c>>

\* One pass of the replacer.
RECURSIVE EscapeOnce(_)
EscapeOnce(s) == IF s = <<>> THEN <<>> ELSE EscapeChar(Head(s)) \o EscapeOnce(Tail(s))

\* An escaper that runs over its own output a second time.
htmlEscaper_Twice(s) == EscapeOnce(EscapeOnce(s))

RECURSIVE htmlEscaper(_)
htmlEscaper(s) == IF s = <<>> THEN <<>> ELSE EscapeChar(Head(s)) \o htmlEscaper(Tail(s))

\* ------------------------------------------------------------ the element
\* type element struct; typ is the concrete type that embeds it.
element(typ, tag, hasClosingTag) ==
    [typ |-> typ, tag |-> tag, hasClosingTag |-> hasClosingTag,
     attributes |-> <<>>, classes |-> <<>>, styles |-> <<>>, content |-> <<>>]

\* addAttribute putting the new entry in front of the list.
addAttribute_Prepend(el, attr, value) ==
    LET name == TrimSpace(attr)
        entry == IF value # <<>>
                 THEN name \o <<"=", "\"">> \o FormatV(value[1]) \o <<"\"">>
                 ELSE name
    IN  IF name = <<>> THEN el
        ELSE [el EXCEPT !.attributes = <<entry>> \o @]

\* addAttribute without the trim and the test for an empty name.
addAttribute_NoTrim(el, attr, value) ==
    LET entry == IF value # <<>>
                 THEN attr \o <<"=", "\"">> \o FormatV(value[1]) \o <<"\"">>
                 ELSE attr
    IN  [el EXCEPT !.attributes = Append(@, entry)]

\* addAttribute keeping one entry only: the last write wins.
addAttribute_Overwrite(el, attr, value) ==
    LET name == TrimSpace(attr)
        entry == IF value # <<>>
                 THEN name \o <<"=", "\"">> \o FormatV(value[1]) \o <<"\"">>
                 ELSE name
    IN  IF name = <<>> THEN el
        ELSE [el EXCEPT !.attributes = <<entry>>]

\* addAttribute writing the value without the quotes around it.
addAttribute_NoQuotes(el, attr, value) ==
    LET name == TrimSpace(attr)
        entry == IF value # <<>> THEN name \o <<"=">> \o FormatV(value[1]) ELSE name
    IN  IF name = <<>> THEN el
        ELSE [el EXCEPT !.attributes = Append(@, entry)]

\* The name of an attribute entry: what precedes its first =.
RECURSIVE KeyOf(_)
KeyOf(e) == IF e = <<>> \/ Head(e) = "=" THEN <<>> ELSE <<Head(e)>> \o KeyOf(Tail(e))

\* addAttribute replacing the entries of the same name: the last write wins.
addAttribute_Dedupe(el, attr, value) ==
    LET name == TrimSpace(attr)
        entry == IF value # <<>>
                 THEN name \o <<"=", "\"">> \o FormatV(value[1]) \o <<"\"">>
                 ELSE name
        Other(e) == KeyOf(e) # name
    IN  IF name = <<>> THEN el
        ELSE [el EXCEPT !.attributes = Append(SelectSeq(@, Other), entry)]

\* func (p *element) addAttribute(attr string, value ...any); value is <<>> or <<v>>.
addAttribute(el, attr, value) ==
    LET name == TrimSpace(attr)
        entry == IF value # <<>>
                 THEN name \o <<"=", "\"">> \o FormatV(value[1]) \o <<"\"">>
                 ELSE name
    IN  IF name = <<>> THEN el
        ELSE [el EXCEPT !.attributes = Append(@, entry)]

\* addClasses testing the token before it is trimmed.
RECURSIVE addClasses_TestUntrimmed(_, _)
addClasses_TestUntrimmed(el, class) ==
    IF class = <<>> THEN el
    ELSE LET c == TrimSpace(Head(class))
         IN  addClasses_TestUntrimmed(
                 IF Head(class) # <<>> THEN [el EXCEPT !.classes = Append(@, c)] ELSE el,
                 Tail(class))

\* func (p *element) addClasses(class ...string)
RECURSIVE addClasses(_, _)
addClasses(el, class) ==
    IF class = <<>> THEN el
    ELSE LET c == TrimSpace(Head(class))
         IN  addClasses(IF c # <<>> THEN [el EXCEPT !.classes = Append(@, c)] ELSE el,
                        Tail(class))

\* func (p *element) addStyles(style ...string): the append is outside the test.
RECURSIVE addStyles(_, _)
addStyles(el, style) ==
    IF style = <<>> THEN el
    ELSE LET t == TrimSpace(Head(style))
             s == IF t # <<>> /\ t[Len(t)] # ";" THEN t \o <<";">> ELSE t
         IN  addStyles([el EXCEPT !.styles = Append(@, s)], Tail(style))

\* contentOf wrapping a plain string in the escaping entity.
contentOf_Escaped(v) ==
    CASE v.t = "Stringer" -> <<v>>
      [] v.t = "string" -> <<escapeStringEntity(v.s)>>
      [] v.t = "nil" -> <<>>
      [] OTHER -> <<rawStringEntity(FormatV(v))>>

\* contentOf without the case for nil: nil falls to the default case.
contentOf_KeepNil(v) ==
    CASE v.t = "Stringer" -> <<v>>
      [] v.t = "string" -> <<rawStringEntity(v.s)>>
      [] OTHER -> <<rawStringEntity(FormatV(v))>>

\* The fmt.Stringer one argument of addContent is stored as, <<>> for nil.
contentOf(v) ==
    CASE v.t = "Stringer" -> <<v>>
      [] v.t = "string" -> <<rawStringEntity(v.s)>>
      [] v.t = "nil" -> <<>>
      [] OTHER -> <<rawStringEntity(FormatV(v))>>

\* func (p *element) addContent(content ...any)
RECURSIVE addContent(_, _)
addContent(el, content) ==
    IF content = <<>> THEN el
    ELSE addContent([el EXCEPT !.content = @ \o contentOf(Head(content))], Tail(content))

\* func newElement(tag string, hasClosingTag bool, content ...any) *element
newElement(typ, tag, hasClosingTag, content) ==
    addContent(element(typ, tag, hasClosingTag), content)

\* func (p *element) getAttributes() string
getAttributes(el) ==
    IF Len(el.attributes) = 0 THEN <<>> ELSE <<" ">> \o Join(el.attributes, <<" ">>)

\* getClasses writing one class attribute for each token.
getClasses_OneEach(el) ==
    Join([i \in 1..Len(el.classes) |->
             <<" ", "c", "l", "a", "s", "s", "=", "\"">> \o el.classes[i] \o <<"\"">>], <<>>)

\* func (p *element) getClasses() string
getClasses(el) ==
    IF Len(el.classes) = 0 THEN <<>>
    ELSE <<" ", "c", "l", "a", "s", "s", "=", "\"">> \o Join(el.classes, <<" ">>) \o <<"\"">>

\* func (p *element) getStyles() string
getStyles(el) ==
    IF Len(el.styles) = 0 THEN <<>>
    ELSE <<" ", "s", "t", "y", "l", "e", "=", "\"">> \o Join(el.styles, <<" ">>) \o <<"\"">>

\* ------------------------------------------------------------------ render
\* The result of a String() call: ok is FALSE when the call never returns (the
\* recursion of getContent runs into the element itself and exhausts the stack).
Returns(s) == [ok |-> TRUE, s |-> s]
Overflow == [ok |-> FALSE, s |-> <<>>]

RECURSIVE StringerString(_, _, _)
RECURSIVE getContent(_, _, _)

\* element.String with one slip: "noclose" forgets the closing tag, "voidcontent"
\* ignores hasClosingTag, "tagalways" has no case for the empty tag, "reorder"
\* writes the style suffix before the class suffix.
elementStringSlip(h, el, d, slip) ==
    LET c == getContent(h, el, d)
        suffixes == IF slip = "reorder"
                    THEN getAttributes(el) \o getStyles(el) \o getClasses(el)
                    ELSE getAttributes(el) \o getClasses(el) \o getStyles(el)
    IN  IF el.tag = <<>> /\ slip # "tagalways" THEN c
        ELSE IF el.hasClosingTag \/ slip = "voidcontent"
        THEN IF c.ok
             THEN Returns(<<"<">> \o el.tag \o suffixes \o <<">">> \o c.s
                          \o (IF slip = "noclose" THEN <<>>
                              ELSE <<"<", "/">> \o el.tag \o <<">">>))
             ELSE Overflow
        ELSE Returns(<<"<">> \o el.tag \o suffixes \o <<"/", ">">>)

elementString_NoClose(h, el, d) == elementStringSlip(h, el, d, "noclose")
elementString_VoidContent(h, el, d) == elementStringSlip(h, el, d, "voidcontent")
elementString_TagAlways(h, el, d) == elementStringSlip(h, el, d, "tagalways")
elementString_Reorder(h, el, d) == elementStringSlip(h, el, d, "reorder")

\* func (p *element) String() string, in heap h, with d nested calls left.
elementString(h, el, d) ==
    LET c == getContent(h, el, d)
    IN  IF el.tag = <<>> THEN c
        ELSE IF el.hasClosingTag
        THEN IF c.ok
             THEN Returns(<<"<">> \o el.tag \o getAttributes(el) \o getClasses(el)
                          \o getStyles(el) \o <<">">> \o c.s
                          \o <<"<", "/">> \o el.tag \o <<">">>)
             ELSE Overflow
        ELSE Returns(<<"<">> \o el.tag \o getAttributes(el) \o getClasses(el)
                     \o getStyles(el) \o <<"/", ">">>)

\* func (p *HtmlElement) String() string
HtmlElementString(h, el, d) ==
    LET c == getContent(h, el, d)
    IN  IF c.ok
        THEN Returns(<<"<", "!", "D", "O", "C", "T", "Y", "P", "E", " ", "h", "t", "m", "l", ">">>
                     \o <<"<">> \o el.tag \o getAttributes(el) \o getClasses(el)
                     \o getStyles(el) \o <<">">> \o c.s
                     \o <<"<", "/">> \o el.tag \o <<">">>)
        ELSE Overflow

\* v.String() of a fmt.Stringer v: the method of its dynamic type.
StringerString(h, v, d) ==
    CASE v.k = "raw" -> Returns(v.content)
      [] v.k = "esc" -> Returns(htmlEscaper(v.content))
      [] OTHER ->
           IF d = 0 THEN Overflow
           ELSE IF h[v.ref].typ = "HtmlElement"
           THEN HtmlElementString(h, h[v.ref], d - 1)
           ELSE elementString(h, h[v.ref], d - 1)

\* func (p *element) getContent() string
RECURSIVE WriteAll(_, _, _)
WriteAll(h, items, d) ==
    IF items = <<>> THEN Returns(<<>>)
    ELSE LET first == StringerString(h, Head(items), d)
             rest == IF first.ok THEN WriteAll(h, Tail(items), d) ELSE Overflow
         IN  IF rest.ok THEN Returns(first.s \o rest.s) ELSE Overflow

getContent(h, el, d) == WriteAll(h, el.content, d)

\* String() called on the concrete element at heap index id.  A chain of calls
\* deeper than the number of elements has met one element twice.
String(h, id) == StringerString(h, Ref(id), Len(h))

\* ------------------------------------------------------------------ inputs
\* Tags of the constructors modelled: Div, Br, Html, and Container's empty tag.
TagDiv == <<"d", "i", "v">>
TagBr == <<"b", "r">>
TagHtml == <<"h", "t", "m", "l">>
TagNone == <<>>

NoValue == <<>>
ValueX == <<AnyString(<<"x">>)>>

\* Calls of addAttribute: <<attr, value...>>, blank and padded names included.
AttrArgs == {<<<<>>, NoValue>>, <<<<" ">>, ValueX>>, <<<<" ", "a">>, NoValue>>,
             <<<<"i", "d">>, ValueX>>}

\* Argument lists of Class(...) / addClasses.
ClassArgs == {<<<<>>, <<" ">>, <<"x">>>>, <<<<"a">>, <<" ", "b", " ">>>>}

\* Argument lists of Style(...) / addStyles.
StyleArgs == {<<<<"c", ":", "r">>>>, <<<<"m", ":", "0", ";">>>>, <<<<>>, <<" ">>>>}

\* Argument lists of the constructors, in heap h: nothing, a text, an element.
ContentArgs(h) == {<<>>, <<AnyString(<<"a">>)>>} \cup {<<Ref(i)>> : i \in 1..Len(h)}

\* Argument lists of AddContent, in heap h.
MoreContent(h) ==
    {<<AnyString(<<"a">>)>>, <<AnyNil, AnyBool(TRUE), AnyInt(123), AnyString(<<"x">>)>>}
    \cup {<<Ref(i)>> : i \in 1..Len(h)}

\* ----------------------------------------------------------------- history
\* inserted[id] is the log of the entries handed to the element at id, in the
\* order of the calls and, within a call, of its arguments.  It is written when
\* the call is made and never read by the program.
NoEntries == [attributes |-> <<>>, classes |-> <<>>, styles |-> <<>>, content |-> <<>>]

NonBlank(s) == s # <<>>
NonNil(v) == v.t # "nil"
Terminated(t) == IF t # <<>> /\ t[Len(t)] # ";" THEN t \o <<";">> ELSE t

AttrEntries(attr, value) ==
    IF TrimSpace(attr) = <<>> THEN <<>>
    ELSE IF value = <<>> THEN <<TrimSpace(attr)>>
    ELSE <<TrimSpace(attr) \o <<"=", "\"">> \o FormatV(value[1]) \o <<"\"">>>>

ClassEntries(args) == SelectSeq([i \in 1..Len(args) |-> TrimSpace(args[i])], NonBlank)

StyleEntries(args) == [i \in 1..Len(args) |-> Terminated(TrimSpace(args[i]))]

ContentEntries(args) ==
    LET kept == SelectSeq(args, NonNil)
    IN  [i \in 1..Len(kept) |->
            IF kept[i].t = "Stringer" THEN kept[i] ELSE rawStringEntity(FormatV(kept[i]))]

\* ----------------------------------------------------------------- actions
Init ==
    /\ heap = <<>>
    /\ ret = [op |-> "none", el |-> 0, ok |-> TRUE, s |-> <<>>]
    /\ inserted = <<>>
    /\ ops = 0

\* What a constructor or a chainable setter returns: the element itself.
Returned(op, id) == [op |-> op, el |-> id, ok |-> TRUE, s |-> <<>>]

\* A constructor: newElement, then the wrapper of concrete type typ around it.
Construct(typ, tag, hasClosingTag, content) ==
    /\ Len(heap) < MaxNodes
    /\ ops < MaxOps
    /\ heap' = Append(heap, newElement(typ, tag, hasClosingTag, content))
    /\ inserted' = Append(inserted, [NoEntries EXCEPT !.content = ContentEntries(content)])
    /\ ret' = Returned("new", Len(heap) + 1)
    /\ ops' = ops + 1

\* func Div(content ...any) *DivElement
Div == \E content \in ContentArgs(heap) : Construct("DivElement", TagDiv, TRUE, content)

\* func Br() *BrElement
Br == Construct("BrElement", TagBr, FALSE, <<>>)

\* func Container(content ...any) *UntaggedElement
Container ==
    \E content \in ContentArgs(heap) : Construct("UntaggedElement", TagNone, FALSE, content)

\* func Html(content ...any) *HtmlElement
Html == \E content \in ContentArgs(heap) : Construct("HtmlElement", TagHtml, TRUE, content)

\* newElement called inside the package for a void tag, with content.
NewVoid == \E content \in ContentArgs(heap) \ {<<>>} : Construct("element", TagBr, FALSE, content)

\* A setter that leaves its element alone and returns a changed copy of it.
AddAttribute_Copy(id, attr, value) ==
    /\ ops < MaxOps
    /\ heap' = Append(heap, addAttribute(heap[id], attr, value))
    /\ inserted' = Append(inserted, [inserted[id] EXCEPT !.attributes =
                                         @ \o AttrEntries(attr, value)])
    /\ ret' = Returned("addAttribute", Len(heap) + 1)
    /\ ops' = ops + 1

\* p.el.addAttribute(attr, value...) on the element at id.
AddAttribute(id, attr, value) ==
    /\ ops < MaxOps
    /\ heap' = [heap EXCEPT ![id] = addAttribute(@, attr, value)]
    /\ inserted' = [inserted EXCEPT ![id].attributes = @ \o AttrEntries(attr, value)]
    /\ ret' = Returned("addAttribute", id)
    /\ ops' = ops + 1

\* func (p *attrGlobal[T]) Class(text ...string) *T: p.el.addClasses(text...)
Class(id, text) ==
    /\ ops < MaxOps
    /\ heap' = [heap EXCEPT ![id] = addClasses(@, text)]
    /\ inserted' = [inserted EXCEPT ![id].classes = @ \o ClassEntries(text)]
    /\ ret' = Returned("Class", id)
    /\ ops' = ops + 1

\* func (p *attrGlobal[T]) Style(text ...string) *T: p.el.addStyles(text...)
Style(id, text) ==
    /\ ops < MaxOps
    /\ heap' = [heap EXCEPT ![id] = addStyles(@, text)]
    /\ inserted' = [inserted EXCEPT ![id].styles = @ \o StyleEntries(text)]
    /\ ret' = Returned("Style", id)
    /\ ops' = ops + 1

\* AddContent putting the new content in front of what the element holds.
AddContent_Front(id, content) ==
    /\ ops < MaxOps
    /\ heap' = [heap EXCEPT ![id].content =
                   addContent(element("", <<>>, FALSE), content).content \o @]
    /\ inserted' = [inserted EXCEPT ![id].content = @ \o ContentEntries(content)]
    /\ ret' = Returned("AddContent", id)
    /\ ops' = ops + 1

\* func (p *addContentFunc[T]) AddContent(content ...any) *T
AddContent(id, content) ==
    /\ ops < MaxOps
    /\ heap' = [heap EXCEPT ![id] = addContent(@, content)]
    /\ inserted' = [inserted EXCEPT ![id].content = @ \o ContentEntries(content)]
    /\ ret' = Returned("AddContent", id)
    /\ ops' = ops + 1

\* A render that uses up the content list it writes.
Render_Draining(id) ==
    /\ ret' = [op |-> IF heap[id].typ = "HtmlElement" THEN "HtmlElement.String"
                      ELSE "element.String",
               el |-> id] @@ String(heap, id)
    /\ heap' = [heap EXCEPT ![id].content = <<>>]
    /\ UNCHANGED <<inserted, ops>>

\* String() called on the concrete element at id: the render.  ret.op names the
\* method that ran: the promoted element.String, or HtmlElement.String.
Render(id) ==
    /\ ret' = [op |-> IF heap[id].typ = "HtmlElement" THEN "HtmlElement.String"
                      ELSE "element.String",
               el |-> id] @@ String(heap, id)
    /\ UNCHANGED <<heap, inserted, ops>>

\* p.element.String() called on the element embedded in an HtmlElement (for
\* every other type this is the call of Render).
RenderEmbedded(id) ==
    /\ heap[id].typ = "HtmlElement"
    /\ ret' = [op |-> "element.String", el |-> id] @@ elementString(heap, heap[id], Len(heap) - 1)
    /\ UNCHANGED <<heap, inserted, ops>>

SetAttribute == \E id \in 1..Len(heap), a \in AttrArgs : AddAttribute(id, a[1], a[2])
SetClass == \E id \in 1..Len(heap), text \in ClassArgs : Class(id, text)
SetStyle == \E id \in 1..Len(heap), text \in StyleArgs : Style(id, text)
PutContent == \E id \in 1..Len(heap), content \in MoreContent(heap) : AddContent(id, content)
CallString == \E id \in 1..Len(heap) : Render(id)
CallElementString == \E id \in 1..Len(heap) : RenderEmbedded(id)

Next ==
    \/ Div
    \/ Br
    \/ Container
    \/ Html
    \/ NewVoid
    \/ SetAttribute
    \/ SetClass
    \/ SetStyle
    \/ PutContent
    \/ CallString
    \/ CallElementString

Spec == Init /\ [][Next]_vars

\* ------------------------------------------------------ the typed setters
\* func (p *attrGlobal[T]) Draggable(value bool) *T
Draggable(id, value) ==
    AddAttribute(id, <<"d", "r", "a", "g", "g", "a", "b", "l", "e">>, <<AnyBool(value)>>)

\* func (p *attrGlobal[T]) TabIndex(value int) *T
TabIndex(id, value) ==
    AddAttribute(id, <<"t", "a", "b", "i", "n", "d", "e", "x">>, <<AnyInt(value)>>)

\* func (p *attrGlobal[T]) Id(value string) *T
Id(id, value) == AddAttribute(id, <<"i", "d">>, <<AnyString(value)>>)

\* func (p *attrGlobal[T]) Hidden() *T
Hidden(id) == AddAttribute(id, <<"h", "i", "d", "d", "e", "n">>, <<>>)

\* Arguments of TabIndex and of Id.
TabIndexArgs == {0 - 1, 0, 7, 10, 123}
IdArgs == {<<"x">>, <<"y">>}

SetDraggable == \E id \in 1..Len(heap), value \in BOOLEAN : Draggable(id, value)
SetTabIndex == \E id \in 1..Len(heap), value \in TabIndexArgs : TabIndex(id, value)
SetId == \E id \in 1..Len(heap), value \in IdArgs : Id(id, value)
SetHidden == \E id \in 1..Len(heap) : Hidden(id)

\* Elements configured through addAttribute and the setters built on it.
NextAttr ==
    \/ Div
    \/ SetAttribute
    \/ SetDraggable
    \/ SetTabIndex
    \/ SetId
    \/ SetHidden
    \/ CallString

SpecAttr == Init /\ [][NextAttr]_vars

\* ------------------------------------------------------- the text entities
\* Longest format string handed to EscapeString.
MaxLen == 2

\* The characters of the format strings: a letter, the five reserved
\* characters, and the % of fmt.
Alphabet == {"a", "<", ">", "&", "\"", "'", "%"}

Formats == UNION {[1..n -> Alphabet] : n \in 0..MaxLen}

\* fmt.Sprintf(format) with no operands, for formats over Alphabet (no flag,
\* width or precision characters): %% prints %, a % at the end prints
\* %!(NOVERB), and % before any other character c prints %!c(MISSING).
RECURSIVE Sprintf(_)
Sprintf(format) ==
    IF format = <<>> THEN <<>>
    ELSE IF Head(format) # "%" THEN <<Head(format)>> \o Sprintf(Tail(format))
    ELSE IF Len(format) = 1 THEN <<"%", "!", "(", "N", "O", "V", "E", "R", "B", ")">>
    ELSE IF format[2] = "%" THEN <<"%">> \o Sprintf(Tail(Tail(format)))
    ELSE <<"%", "!", format[2], "(", "M", "I", "S", "S", "I", "N", "G", ")">>
         \o Sprintf(Tail(Tail(format)))

\* func EscapeString(format string, args ...any) *escapeStringEntity, called
\* with the format alone.
EscapeString(format) == escapeStringEntity(Sprintf(format))

\* EscapeString(format) called: ret.v is the entity returned.
CallEscapeString(format) ==
    /\ ret' = [op |-> "EscapeString", el |-> 0, ok |-> TRUE, s |-> <<>>,
               format |-> format, v |-> EscapeString(format)]
    /\ UNCHANGED <<heap, inserted, ops>>

\* func (p *escapeStringEntity) String() string, on the entity just returned.
CallEntityString ==
    /\ ret.op = "EscapeString"
    /\ ret' = [ret EXCEPT !.op = "escapeStringEntity.String",
                          !.s = StringerString(heap, ret.v, 0).s]
    /\ UNCHANGED <<heap, inserted, ops>>

NewEscapeString == \E format \in Formats : CallEscapeString(format)

\* The escaping entity alone: made by EscapeString, then rendered.
NextEscape ==
    \/ NewEscapeString
    \/ CallEntityString

SpecEscape == Init /\ [][NextEscape]_vars

\* The text of the test of plain against escaped content, and two more.
TextAB == <<"a", "<", "b", ">">>
Texts == {TextAB, <<"x">>, <<"&", "'">>}

\* Div("...") with a plain string as its content.
DivText == \E text \in Texts : Construct("DivElement", TagDiv, TRUE, <<AnyString(text)>>)

\* Div(EscapeString("...")).
DivEscaped == \E text \in Texts : Construct("DivElement", TagDiv, TRUE, <<EscapeString(text)>>)

\* Elements holding one text, plain or escaped, and their renders.
NextText ==
    \/ DivText
    \/ DivEscaped
    \/ CallString

SpecText == Init /\ [][NextText]_vars

\* ------------------------------------------------------ AddAttributes
\* An object of an external package with the method GetAttributes() []string
\* returning list; when stringer, it has the method String() string as well,
\* returning str.
External(list, stringer, str) == [t |-> "External", list |-> list, stringer |-> stringer, str |-> str]

\* v.String() of an argument that is a fmt.Stringer.
StringOf(h, v) == IF v.t = "External" THEN Returns(v.str) ELSE StringerString(h, v, Len(h))

\* The type switch of AddAttributes tried with fmt.Stringer first.
attrStrings_StringerFirst(h, v) ==
    CASE v.t = "Stringer" \/ (v.t = "External" /\ v.stringer) -> <<StringOf(h, v).s>>
      [] v.t = "External" -> v.list
      [] v.t = "string" -> <<v.s>>
      [] OTHER -> <<>>

\* The type switch of AddAttributes: the strings handed to addAttribute for
\* one argument, by the first case that matches.
attrStrings(h, v) ==
    CASE v.t = "External" -> v.list
      [] v.t = "Stringer" -> <<StringOf(h, v).s>>
      [] v.t = "string" -> <<v.s>>
      [] OTHER -> <<>>

\* All the strings handed to addAttribute by one call, in order.
RECURSIVE allAttrStrings(_, _)
allAttrStrings(h, attrs) ==
    IF attrs = <<>> THEN <<>>
    ELSE attrStrings(h, Head(attrs)) \o allAttrStrings(h, Tail(attrs))

\* p.el.addAttribute(s) for each string of a list.
RECURSIVE addAttributeEach(_, _)
addAttributeEach(el, names) ==
    IF names = <<>> THEN el
    ELSE addAttributeEach(addAttribute(el, Head(names), <<>>), Tail(names))

RECURSIVE AttrEntriesEach(_)
AttrEntriesEach(names) ==
    IF names = <<>> THEN <<>>
    ELSE AttrEntries(Head(names), <<>>) \o AttrEntriesEach(Tail(names))

\* The String() of every fmt.Stringer among the arguments returns.
StringersReturn(h, attrs) ==
    \A i \in 1..Len(attrs) :
        (attrs[i].t = "Stringer" \/ (attrs[i].t = "External" /\ attrs[i].stringer))
            => StringOf(h, attrs[i]).ok

\* func (p *attrExternalAttributes[T]) AddAttributes(attrs ...any) *T
AddAttributes(id, attrs) ==
    /\ ops < MaxOps
    /\ StringersReturn(heap, attrs)
    /\ heap' = [heap EXCEPT ![id] = addAttributeEach(@, allAttrStrings(heap, attrs))]
    /\ inserted' = [inserted EXCEPT ![id].attributes =
                        @ \o AttrEntriesEach(allAttrStrings(heap, attrs))]
    /\ ret' = Returned("AddAttributes", id)
    /\ ops' = ops + 1

\* Arguments of AddAttributes: external objects with GetAttributes alone and
\* with String() too, text entities, an element, strings, and other values.
ListOnly == External(<<<<"a">>, <<"b">>>>, FALSE, <<>>)
ListAndString == External(<<<<"c">>, <<" ">>, <<" ", "d">>>>, TRUE, <<"z">>)

ExternalArgs(h) ==
    {<<ListOnly>>, <<ListAndString>>, <<rawStringEntity(<<"e">>)>>,
     <<escapeStringEntity(<<"<">>)>>, <<AnyString(<<"f">>)>>, <<AnyString(<<" ">>)>>,
     <<AnyInt(7)>>, <<AnyNil>>, <<AnyBool(TRUE)>>,
     <<ListAndString, AnyInt(7), rawStringEntity(<<"e">>), AnyString(<<" ", "f">>)>>}
    \cup {<<Ref(i)>> : i \in 1..Len(h)}

SetExternal == \E id \in 1..Len(heap), attrs \in ExternalArgs(heap) : AddAttributes(id, attrs)

\* Elements given attributes from outside through AddAttributes.
NextExternal ==
    \/ Div
    \/ SetExternal
    \/ CallString

SpecExternal == Init /\ [][NextExternal]_vars

\* ------------------------------------------------- the boolean-flag setters
\* A variadic parameter value ...bool: nil when the call passes no argument,
\* the slice of the arguments otherwise.
NoArgs == [isNil |-> TRUE, v |-> <<>>]
Args(v) == [isNil |-> FALSE, v |-> v]

TagDetails == <<"d", "e", "t", "a", "i", "l", "s">>

\* func Details(content ...any) *DetailsElement
Details == \E content \in ContentArgs(heap) : Construct("DetailsElement", TagDetails, TRUE, content)

\* A flag setter that ignores its argument and always sets the bare name.
boolFlag_Bare(id, name, value) ==
    /\ value.isNil \/ value.v # <<>>
    /\ AddAttribute(id, name, <<>>)

\* The body the four setters share: the bare name when value is nil, else
\* name="FormatBool(value[0])"; value[0] of an empty slice panics.
boolFlag(id, name, value) ==
    /\ value.isNil \/ value.v # <<>>
    /\ IF value.isNil
       THEN AddAttribute(id, name, <<>>)
       ELSE AddAttribute(id, name, <<AnyString(FormatBool(value.v[1]))>>)

\* func (p *attrGlobal[T]) AutoFocus(value ...bool) *T
AutoFocus(id, value) == boolFlag(id, <<"a", "u", "t", "o", "f", "o", "c", "u", "s">>, value)

\* func (p *attrGlobal[T]) Inert(value ...bool) *T
Inert(id, value) == boolFlag(id, <<"i", "n", "e", "r", "t">>, value)

\* func (p *attrGlobal[T]) SpellCheck(value ...bool) *T
SpellCheck(id, value) ==
    boolFlag(id, <<"s", "p", "e", "l", "l", "c", "h", "e", "c", "k">>, value)

\* func (p *attrOpen[T]) Open(value ...bool) *T, of <details> and <dialog>.
Open(id, value) ==
    /\ heap[id].typ = "DetailsElement"
    /\ boolFlag(id, <<"o", "p", "e", "n">>, value)

\* Calls with no argument, with one, and with two.
BoolArgs == {NoArgs, Args(<<TRUE>>), Args(<<FALSE>>), Args(<<FALSE, TRUE>>)}

SetAutoFocus == \E id \in 1..Len(heap), value \in BoolArgs : AutoFocus(id, value)
SetInert == \E id \in 1..Len(heap), value \in BoolArgs : Inert(id, value)
SetSpellCheck == \E id \in 1..Len(heap), value \in BoolArgs : SpellCheck(id, value)
SetOpen == \E id \in 1..Len(heap), value \in BoolArgs : Open(id, value)

\* <details> elements and their boolean flags.
NextFlags ==
    \/ Details
    \/ SetAutoFocus
    \/ SetInert
    \/ SetSpellCheck
    \/ SetOpen
    \/ CallString

SpecFlags == Init /\ [][NextFlags]_vars

\* ------------------------------------------------ the enumerated setters
\* strings.ToLower, for the letters of the values passed.
LowerOf(c) ==
    CASE c = "A" -> "a" [] c = "E" -> "e" [] c = "F" -> "f" [] c = "L" -> "l"
      [] c = "R" -> "r" [] c = "S" -> "s" [] c = "T" -> "t" [] c = "U" -> "u"
      [] c = "O" -> "o" [] c = "N" -> "n" [] c = "C" -> "c" [] c = "I" -> "i"
      [] c = "K" -> "k" [] c = "Y" -> "y"
      [] OTHER -> c

ToLower(s) == [i \in 1..Len(s) |-> LowerOf(s[i])]

\* ContentEditable passing its first argument on as it is.
ContentEditable_Verbatim(id, value) ==
    /\ value.isNil \/ value.v # <<>>
    /\ IF value.isNil
       THEN AddAttribute(id, <<"c", "o", "n", "t", "e", "n", "t", "e", "d", "i", "t", "a", "b", "l", "e">>, <<>>)
       ELSE AddAttribute(id, <<"c", "o", "n", "t", "e", "n", "t", "e", "d", "i", "t", "a", "b", "l", "e">>, <<AnyString(value.v[1])>>)

\* func (p *attrGlobal[T]) ContentEditable(value ...string) *T
\* value[0] of an empty slice panics.
ContentEditable(id, value) ==
    /\ value.isNil \/ value.v # <<>>
    /\ IF value.isNil
       THEN AddAttribute(id, <<"c", "o", "n", "t", "e", "n", "t", "e", "d", "i", "t", "a", "b", "l", "e">>, <<>>)
       ELSE LET v == TrimSpace(ToLower(value.v[1]))
            IN  IF v \notin {<<"t", "r", "u", "e">>, <<"f", "a", "l", "s", "e">>, <<"p", "l", "a", "i", "n", "t", "e", "x", "t", "-", "o", "n", "l", "y">>}
                THEN AddAttribute(id, <<"c", "o", "n", "t", "e", "n", "t", "e", "d", "i", "t", "a", "b", "l", "e">>, <<>>)
                ELSE AddAttribute(id, <<"c", "o", "n", "t", "e", "n", "t", "e", "d", "i", "t", "a", "b", "l", "e">>, <<AnyString(v)>>)

\* func (p *attrGlobal[T]) Dir(value string) *T
Dir(id, value) == AddAttribute(id, <<"d", "i", "r">>, <<AnyString(value)>>)

\* func (p *attrGlobal[T]) Translate(value string) *T
Translate(id, value) == AddAttribute(id, <<"t", "r", "a", "n", "s", "l", "a", "t", "e">>, <<AnyString(value)>>)

\* func (p *attrGlobal[T]) AutoCapitalize(value string) *T
AutoCapitalize(id, value) == AddAttribute(id, <<"a", "u", "t", "o", "c", "a", "p", "i", "t", "a", "l", "i", "z", "e">>, <<AnyString(value)>>)

\* Values passed to the enumerated setters: recognized tokens in other case
\* and padded, a recognized token as it is, an unrecognized word, nothing.
EditableValues == {<<" ", "T", "R", "U", "E", " ">>, <<"F", "a", "l", "s", "e">>, <<"p", "l", "a", "i", "n", "t", "e", "x", "t", "-", "o", "n", "l", "y">>, <<"b", "o", "g", "u", "s">>, <<>>}
DirValues == {<<"R", "T", "L">>, <<"l", "t", "r">>, <<" ", "a", "u", "t", "o">>, <<"b", "o", "g", "u", "s">>}
TranslateValues == {<<"Y", "E", "S">>, <<"n", "o">>, <<"b", "o", "g", "u", "s">>}
CapitalizeValues == {<<"O", "n">>, <<"w", "o", "r", "d", "s">>, <<"b", "o", "g", "u", "s">>}

SetContentEditable ==
    \E id \in 1..Len(heap), value \in {NoArgs} \cup {Args(<<v>>) : v \in EditableValues} :
        ContentEditable(id, value)
SetDir == \E id \in 1..Len(heap), value \in DirValues : Dir(id, value)
SetTranslate == \E id \in 1..Len(heap), value \in TranslateValues : Translate(id, value)
SetAutoCapitalize ==
    \E id \in 1..Len(heap), value \in CapitalizeValues : AutoCapitalize(id, value)

\* Elements and their enumerated attributes.
NextEnum ==
    \/ Div
    \/ SetContentEditable
    \/ SetDir
    \/ SetTranslate
    \/ SetAutoCapitalize
    \/ CallString

SpecEnum == Init /\ [][NextEnum]_vars

\* ------------------------------------------------------------------ On
\* A call that panics: it does not return and changes nothing.
Panicked(op, id) == [op |-> op, el |-> id, ok |-> FALSE, s |-> <<>>]

\* func (p *attrOn[T]) On(eventName, script string) *T
\* eventName[:2] of a name shorter than two bytes panics (slice bounds out of
\* range).
On(id, eventName, script) ==
    LET name == ToLower(eventName)
    IN  IF Len(name) < 2
        THEN /\ ops < MaxOps
             /\ ret' = Panicked("On", id)
             /\ ops' = ops + 1
             /\ UNCHANGED <<heap, inserted>>
        ELSE IF SubSeq(name, 1, 2) = <<"o", "n">>
        THEN AddAttribute(id, name, <<AnyString(script)>>)
        ELSE AddAttribute(id, <<"o", "n">> \o name, <<AnyString(script)>>)

\* Event names: plain, prefixed, in mixed case, of one character, empty.
EventNames == {<<"c", "l", "i", "c", "k">>, <<"o", "n", "c", "l", "i", "c", "k">>, <<"O", "n", "C", "l", "i", "c", "k">>, <<"x">>, <<>>}
Scripts == {<<"s">>, <<"f", "(", ")">>}

SetOn == \E id \in 1..Len(heap), eventName \in EventNames, script \in Scripts :
             On(id, eventName, script)

\* Elements and their event handlers.
NextOn ==
    \/ Div
    \/ SetOn
    \/ CallString

SpecOn == Init /\ [][NextOn]_vars

\* --------------------------------------------------- concurrent renders
\* Goroutines that call String() on the finished tree at the same time.
MaxReaders == 2
Readers == 1..MaxReaders

\* A piece of text a render has ready to write.
Lit(s) == [t |-> "lit", s |-> s]

\* What the String method of one fmt.Stringer writes, in order: its own
\* texts and, in between, the children it calls String() on in getContent.
Pieces(h, v) ==
    CASE v.k = "raw" -> <<Lit(v.content)>>
      [] v.k = "esc" -> <<Lit(htmlEscaper(v.content))>>
      [] OTHER ->
           LET el == h[v.ref]
               open == <<"<">> \o el.tag \o getAttributes(el) \o getClasses(el) \o getStyles(el)
               doctype == IF el.typ = "HtmlElement"
                          THEN <<"<", "!", "D", "O", "C", "T", "Y", "P", "E", " ",
                                 "h", "t", "m", "l", ">">>
                          ELSE <<>>
           IN  IF el.typ # "HtmlElement" /\ el.tag = <<>> THEN el.content
               ELSE IF el.typ = "HtmlElement" \/ el.hasClosingTag
               THEN <<Lit(doctype \o open \o <<">">>)>> \o el.content
                    \o <<Lit(<<"<", "/">> \o el.tag \o <<">">>)>>
               ELSE <<Lit(open \o <<"/", ">">>)>>

Idle == [state |-> "idle", el |-> 0, todo |-> <<>>, out |-> <<>>]

\* The tree is finished: the goroutines are started, nothing mutates it.
Freeze ==
    /\ heap # <<>>
    /\ ret.op # "readers"
    /\ ret' = [op |-> "readers", el |-> 0, ok |-> TRUE, s |-> <<>>,
               readers |-> [r \in Readers |-> Idle]]
    /\ UNCHANGED <<heap, inserted, ops>>

\* Goroutine r calls String() on the element at id.  The goroutines are
\* numbered in the order of their calls.
StartRender(r, id) ==
    /\ ret.op = "readers"
    /\ ret.readers[r].state = "idle"
    /\ \A q \in 1..(r - 1) : ret.readers[q].state # "idle"
    /\ ret' = [ret EXCEPT !.readers[r] =
                   [state |-> "running", el |-> id, todo |-> <<Ref(id)>>, out |-> <<>>]]
    /\ UNCHANGED <<heap, inserted, ops>>

\* A step of a render that takes out of the tree the child it visits.
RenderStep_Draining(r) ==
    /\ ret.op = "readers"
    /\ ret.readers[r].state = "running"
    /\ LET me == ret.readers[r]
           item == Head(me.todo)
           todo == IF item.t = "lit" THEN Tail(me.todo)
                   ELSE Pieces(heap, item) \o Tail(me.todo)
           out == IF item.t = "lit" THEN me.out \o item.s ELSE me.out
       IN  /\ ret' = [ret EXCEPT !.readers[r] =
                          [state |-> IF todo = <<>> THEN "done" ELSE "running",
                           el |-> me.el, todo |-> todo, out |-> out]]
           /\ heap' = IF item.t = "lit" \/ item.k # "el" THEN heap
                      ELSE [heap EXCEPT ![item.ref].content = <<>>]
    /\ UNCHANGED <<inserted, ops>>

\* One step of the render of goroutine r: a text is written, or String() is
\* entered on the next child, which reads that child's fields.
RenderStep(r) ==
    /\ ret.op = "readers"
    /\ ret.readers[r].state = "running"
    /\ LET me == ret.readers[r]
           item == Head(me.todo)
           todo == IF item.t = "lit" THEN Tail(me.todo)
                   ELSE Pieces(heap, item) \o Tail(me.todo)
           out == IF item.t = "lit" THEN me.out \o item.s ELSE me.out
       IN  ret' = [ret EXCEPT !.readers[r] =
                       [state |-> IF todo = <<>> THEN "done" ELSE "running",
                        el |-> me.el, todo |-> todo, out |-> out]]
    /\ UNCHANGED <<heap, inserted, ops>>

\* The tree is built by one goroutine before the renders start.
Building == ret.op # "readers"
BuildDiv == Building /\ Div
BuildHidden == Building /\ SetHidden

Start == \E r \in Readers, id \in 1..Len(heap) : StartRender(r, id)
Step == \E r \in Readers : RenderStep(r)

\* Build, then render from several goroutines.
NextReaders ==
    \/ BuildDiv
    \/ BuildHidden
    \/ Freeze
    \/ Start
    \/ Step

SpecReaders == Init /\ [][NextReaders]_vars

\* ------------------------------------------------------------ chaining
\* One element type with every kind of chainable setter called on it.
NextChain ==
    \/ Div
    \/ SetAttribute
    \/ SetClass
    \/ SetStyle
    \/ PutContent
    \/ SetExternal
    \/ SetOn

SpecChain == Init /\ [][NextChain]_vars

\* ------------------------------------------------------------------ claims
\* Concatenation of a sequence of strings, nothing in between.
RECURSIVE Flat(_)
Flat(ss) == IF ss = <<>> THEN <<>> ELSE Head(ss) \o Flat(Tail(ss))

\* The render of each item of a content list, in order.
Renders(h, items) == [i \in 1..Len(items) |-> StringerString(h, items[i], Len(h)).s]

IsPrefix(a, b) == Len(a) <= Len(b) /\ SubSeq(b, 1, Len(a)) = a

Rendered == ret.op \in {"element.String", "HtmlElement.String"} /\ ret.ok
Node == heap[ret.el]

\* C1: element.String of a node with a non-empty tag and a closing tag returns
\* exactly <tag + attribute suffix + class suffix + style suffix + > + the
\* renders of the children in order + </tag>, nothing in between.
C1_ClosingTagRender ==
    (ret.op = "element.String" /\ ret.ok /\ Node.tag # <<>> /\ Node.hasClosingTag)
    => ret.s = <<"<">> \o Node.tag \o getAttributes(Node) \o getClasses(Node)
               \o getStyles(Node) \o <<">">> \o Flat(Renders(heap, Node.content))
               \o <<"<", "/">> \o Node.tag \o <<">">>

\* A closing-tag node with two or more children, one of them an element, rendered.
C1_Witness ==
    /\ ret.op = "element.String" /\ ret.ok
    /\ Node.tag # <<>> /\ Node.hasClosingTag
    /\ Len(Node.content) >= 2
    /\ \E i \in 1..Len(Node.content) : Node.content[i].k = "el"

\* C2: element.String of a void node (non-empty tag, no closing tag) returns
\* exactly <tag + the three suffixes + />, whatever its content list holds.
C2_VoidRender ==
    (ret.op = "element.String" /\ Node.tag # <<>> /\ ~Node.hasClosingTag)
    => /\ ret.ok
       /\ ret.s = <<"<">> \o Node.tag \o getAttributes(Node) \o getClasses(Node)
                  \o getStyles(Node) \o <<"/", ">">>

\* A void node that was given content at construction, rendered.
C2_Witness ==
    /\ ret.op = "element.String"
    /\ Node.tag # <<>> /\ ~Node.hasClosingTag
    /\ Node.content # <<>>

\* C3: element.String of a node with the empty tag returns exactly the
\* concatenation of its children's renders in insertion order, and no text of
\* its own, whatever its attribute, class and style lists hold.
C3_UntaggedRender ==
    (ret.op = "element.String" /\ ret.ok /\ Node.tag = <<>>)
    => ret.s = Flat(Renders(heap, Node.content))

\* A container holding "a" and an empty div renders a<div></div>.
C3_Witness ==
    /\ ret.op = "element.String" /\ ret.ok
    /\ Node.tag = <<>>
    /\ Len(Node.content) = 2 /\ Node.content[1].k = "raw" /\ Node.content[2].k = "el"
    /\ ret.s = <<"a", "<", "d", "i", "v", ">", "<", "/", "d", "i", "v", ">">>

\* What HtmlElement.String writes before the tag.
Preamble == <<"<", "!", "D", "O", "C", "T", "Y", "P", "E", " ", "h", "t", "m", "l", ">">>

\* The text the insertion log of an element asks for: every logged entry once,
\* in the order it was logged.
Spaced(entries) == Flat([i \in 1..Len(entries) |-> <<" ">> \o entries[i]])

Quoted(name, entries) ==
    IF entries = <<>> THEN <<>>
    ELSE <<" ">> \o name \o <<"=", "\"">> \o SubSeq(Spaced(entries), 2, Len(Spaced(entries)))
         \o <<"\"">>

LoggedOpenTag(tag, log) ==
    <<"<">> \o tag \o Spaced(log.attributes)
    \o Quoted(<<"c", "l", "a", "s", "s">>, log.classes)
    \o Quoted(<<"s", "t", "y", "l", "e">>, log.styles)

LoggedRender(h, el, log) ==
    IF el.tag = <<>> THEN Flat(Renders(h, log.content))
    ELSE IF el.hasClosingTag
    THEN LoggedOpenTag(el.tag, log) \o <<">">> \o Flat(Renders(h, log.content))
         \o <<"<", "/">> \o el.tag \o <<">">>
    ELSE LoggedOpenTag(el.tag, log) \o <<"/", ">">>

\* C4: after any sequence of additions, the entries of the four lists appear
\* in the render in exactly the order in which they were inserted: the render
\* is the one the insertion log gives, entry by entry.
C4_InsertionOrder ==
    Rendered => ret.s = (IF ret.op = "HtmlElement.String" THEN Preamble ELSE <<>>)
                        \o LoggedRender(heap, Node, inserted[ret.el])

\* Two attributes added by two calls, then rendered.
C4_Witness ==
    /\ Rendered
    /\ Node.tag # <<>>
    /\ Len(inserted[ret.el].attributes) = 2
    /\ inserted[ret.el].attributes[1] # inserted[ret.el].attributes[2]

\* The opening tag of a render starts after the preamble, if there is one.
Skip == IF ret.op = "HtmlElement.String" THEN Len(Preamble) ELSE 0

Occurrences(needle, hay) ==
    Cardinality({i \in 1..(Len(hay) - Len(needle) + 1) :
                    SubSeq(hay, i, i + Len(needle) - 1) = needle})

ClassEq == <<" ", "c", "l", "a", "s", "s", "=", "\"">>
StyleEq == <<" ", "s", "t", "y", "l", "e", "=", "\"">>

\* C5: in every render of a tagged node the opening tag is the discrete
\* attributes, then one class="..." holding all class tokens space-joined, then
\* one style="..." holding all declarations space-joined; class and style are
\* absent when their list is empty.
C5_OpeningTagLayout ==
    (Rendered /\ Node.tag # <<>>)
    => LET open == <<"<">> \o Node.tag \o Spaced(Node.attributes)
                   \o Quoted(<<"c", "l", "a", "s", "s">>, Node.classes)
                   \o Quoted(<<"s", "t", "y", "l", "e">>, Node.styles)
                   \o (IF Node.hasClosingTag THEN <<">">> ELSE <<"/", ">">>)
       IN  /\ SubSeq(ret.s, Skip + 1, Skip + Len(open)) = open
           /\ Occurrences(ClassEq, open) = IF Node.classes = <<>> THEN 0 ELSE 1
           /\ Occurrences(StyleEq, open) = IF Node.styles = <<>> THEN 0 ELSE 1

\* Class("a", " b ") then Class("", " ", "x") renders one class="a b x".
C5_Witness ==
    /\ Rendered
    /\ Node.classes = <<<<"a">>, <<"b">>, <<"x">>>>
    /\ ret.s = <<"<", "d", "i", "v", " ", "c", "l", "a", "s", "s", "=", "\"",
                 "a", " ", "b", " ", "x", "\"", ">", "<", "/", "d", "i", "v", ">">>

Ids == 1..Len(heap)
Blank(s) == TrimSpace(s) = <<>>
AllBlank(args) == \A i \in 1..Len(args) : Blank(args[i])
EndsWithSemicolon(s) == s # <<>> /\ s[Len(s)] = ";"

\* C6: an empty or whitespace-only declaration passed to Style / addStyles is
\* dropped: the call leaves the styles list as it was.
C6_BlankStyleDropped ==
    [][\A id \in Ids : \A text \in StyleArgs :
          (Style(id, text) /\ AllBlank(text)) => heap'[id].styles = heap[id].styles]_vars

\* C7: in every reachable state every entry of every styles list ends with ';'.
C7_StylesEndWithSemicolon ==
    \A id \in Ids : \A i \in 1..Len(heap[id].styles) : EndsWithSemicolon(heap[id].styles[i])

\* C8: addAttribute with an empty or whitespace-only name changes nothing, with
\* or without a value; with any other name it appends one entry, which is the
\* trimmed name when no value is given and starts with the trimmed name and ="
\* when one is.
C8_AttributeNameTrimmed ==
    [][\A id \in Ids : \A a \in AttrArgs :
          AddAttribute(id, a[1], a[2]) =>
              IF Blank(a[1]) THEN heap' = heap
              ELSE LET old == heap[id].attributes
                       new == heap'[id].attributes
                       head == IF a[2] = <<>> THEN TrimSpace(a[1])
                               ELSE TrimSpace(a[1]) \o <<"=", "\"">>
                   IN  /\ Len(new) = Len(old) + 1
                       /\ SubSeq(new, 1, Len(old)) = old
                       /\ IsPrefix(head, new[Len(new)])
                       /\ a[2] = <<>> => new[Len(new)] = head]_vars

\* One addAttribute call was made, its name was blank, and no list changed.
C8_Witness ==
    /\ ret.op = "addAttribute"
    /\ ops = Len(heap) + 1
    /\ heap[ret.el].attributes = <<>>

\* No entry of a classes list is empty or has white space at either end.
ClassesClean ==
    \A id \in Ids : \A i \in 1..Len(heap[id].classes) :
        LET c == heap[id].classes[i] IN c # <<>> /\ ~IsSpace(c[1]) /\ ~IsSpace(c[Len(c)])

\* C9: addClasses appends exactly the non-empty trimmed tokens of its arguments
\* in argument order and drops the blank ones; so no entry of a classes list is
\* ever empty or has leading or trailing white space.
C9_ClassTokensFiltered ==
    /\ []ClassesClean
    /\ [][\A id \in Ids : \A text \in ClassArgs :
            Class(id, text) =>
                heap'[id].classes =
                    heap[id].classes
                    \o SelectSeq([i \in 1..Len(text) |-> TrimSpace(text[i])], NonBlank)]_vars

\* Class("", " ", "x") was the one call made: the classes list holds x alone.
C9_Witness ==
    /\ ret.op = "Class"
    /\ ops = Len(heap) + 1
    /\ heap[ret.el].classes = <<<<"x">>>>

\* C10: every step of the library leaves each element in place and each of its
\* four lists a prefix of what the list is after the step.
C10_ListsOnlyGrow ==
    [][/\ Len(heap) <= Len(heap')
       /\ \A id \in Ids :
            /\ IsPrefix(heap[id].attributes, heap'[id].attributes)
            /\ IsPrefix(heap[id].classes, heap'[id].classes)
            /\ IsPrefix(heap[id].styles, heap'[id].styles)
            /\ IsPrefix(heap[id].content, heap'[id].content)]_vars

\* An element whose attributes list grew twice.
C10_Witness ==
    \E id \in Ids : Len(heap[id].attributes) = 2 /\ ops = Len(heap) + 2

\* ---------------------------------------------------------- claims C11..C20
StringOps == {"element.String", "HtmlElement.String"}

\* The same String method called again on the same element, now.
Again ==
    IF ret.op = "HtmlElement.String" THEN String(heap, ret.el)
    ELSE elementString(heap, heap[ret.el], Len(heap) - 1)

\* C11: render performs no mutation: a String step leaves every element (tag,
\* void flag and the four lists, descendants included) as it was, and the same
\* call made again right after it returns the identical string.
C11_RenderReadOnly ==
    /\ [](ret.op \in StringOps => (Again.ok = ret.ok /\ Again.s = ret.s))
    /\ [][(ret'.op \in StringOps /\ ops' = ops) => (heap' = heap /\ inserted' = inserted)]_vars

\* An element with an attribute and an element child, rendered.
C11_Witness ==
    /\ Rendered
    /\ Node.attributes # <<>>
    /\ \E i \in 1..Len(Node.content) : Node.content[i].k = "el"

\* Every call of addAttribute that SpecAttr makes: <<attr, value...>>.
AttrCalls ==
    AttrArgs
    \cup {<<<<"d", "r", "a", "g", "g", "a", "b", "l", "e">>, <<AnyBool(b)>>>> : b \in BOOLEAN}
    \cup {<<<<"t", "a", "b", "i", "n", "d", "e", "x">>, <<AnyInt(i)>>>> : i \in TabIndexArgs}
    \cup {<<<<"i", "d">>, <<AnyString(v)>>>> : v \in IdArgs}
    \cup {<<<<"h", "i", "d", "d", "e", "n">>, <<>>>>}

\* The textual form of the values passed, written out.
TextOf(v) ==
    CASE v.t = "string" -> v.s
      [] v.t = "bool" /\ v.b -> <<"t", "r", "u", "e">>
      [] v.t = "bool" /\ ~v.b -> <<"f", "a", "l", "s", "e">>
      [] v.t = "int" /\ v.i = 0 - 1 -> <<"-", "1">>
      [] v.t = "int" /\ v.i = 0 -> <<"0">>
      [] v.t = "int" /\ v.i = 7 -> <<"7">>
      [] v.t = "int" /\ v.i = 10 -> <<"1", "0">>
      [] v.t = "int" /\ v.i = 123 -> <<"1", "2", "3">>

\* C12: addAttribute with a non-blank name appends exactly name="value", the
\* value in its textual form (true/false, decimal), when a value is given and
\* exactly the bare trimmed name when none is.
C12_AttributeFormat ==
    [][\A id \in Ids : \A c \in AttrCalls :
          (AddAttribute(id, c[1], c[2]) /\ ~Blank(c[1])) =>
              heap'[id].attributes =
                  Append(heap[id].attributes,
                         IF c[2] = <<>> THEN TrimSpace(c[1])
                         ELSE TrimSpace(c[1]) \o <<"=", "\"">> \o TextOf(c[2][1]) \o <<"\"">>)]_vars

\* Draggable(false) and TabIndex(10) on one element.
C12_Witness ==
    \E id \in Ids :
        /\ Len(heap[id].attributes) = 2
        /\ <<"d", "r", "a", "g", "g", "a", "b", "l", "e", "=", "\"", "f", "a", "l", "s", "e", "\"">>
               \in {heap[id].attributes[i] : i \in 1..2}
        /\ <<"t", "a", "b", "i", "n", "d", "e", "x", "=", "\"", "1", "0", "\"">>
               \in {heap[id].attributes[i] : i \in 1..2}

\* C13: attributes are never deduplicated by name: each addAttribute call with
\* a non-blank name adds exactly one entry and keeps the earlier ones, so the
\* list has one entry for each such call, and a render shows them all in call
\* order.
C13_NoDeduplication ==
    /\ [](\A id \in Ids : Len(heap[id].attributes) = Len(inserted[id].attributes))
    /\ [][\A id \in Ids : \A c \in AttrCalls :
            (AddAttribute(id, c[1], c[2]) /\ ~Blank(c[1])) =>
                /\ Len(heap'[id].attributes) = Len(heap[id].attributes) + 1
                /\ IsPrefix(heap[id].attributes, heap'[id].attributes)]_vars
    /\ []((Rendered /\ Node.tag # <<>>) =>
             IsPrefix(<<"<">> \o Node.tag \o Spaced(inserted[ret.el].attributes),
                      SubSeq(ret.s, Skip + 1, Len(ret.s))))

\* Id("x") then Id("y") renders both, in call order.
C13_Witness ==
    /\ Rendered
    /\ ret.s = <<"<", "d", "i", "v", " ", "i", "d", "=", "\"", "x", "\"", " ",
                 "i", "d", "=", "\"", "y", "\"", ">", "<", "/", "d", "i", "v", ">">>

\* The mixed content list of the test "one": nil, true, 123, "x".
Mixed == <<AnyNil, AnyBool(TRUE), AnyInt(123), AnyString(<<"x">>)>>

\* What one argument of addContent adds to the content list: itself when it
\* is renderable, a raw text of the string, nothing for nil, and a raw text of
\* the written-out textual form for any other value.
Normal(v) ==
    CASE v.t = "Stringer" -> <<v>>
      [] v.t = "string" -> <<[t |-> "Stringer", k |-> "raw", ref |-> 0, content |-> v.s]>>
      [] v.t = "nil" -> <<>>
      [] OTHER -> <<[t |-> "Stringer", k |-> "raw", ref |-> 0, content |-> TextOf(v)]>>

RECURSIVE Normalized(_)
Normalized(content) ==
    IF content = <<>> THEN <<>> ELSE Normal(Head(content)) \o Normalized(Tail(content))

\* C14: AddContent appends the normalized form of each argument, in order, to
\* the content list (renderable as is, string as raw text, nil skipped, other
\* values as raw text of their textual form), and an untagged element whose
\* content is the list nil, true, 123, "x" renders as true123x.
C14_ContentNormalized ==
    /\ [][\A id \in Ids : \A content \in MoreContent(heap) :
             AddContent(id, content) =>
                 heap'[id].content = heap[id].content \o Normalized(content)]_vars
    /\ []((Rendered /\ Node.tag = <<>> /\ Node.content = Normalized(Mixed)) =>
              ret.s = <<"t", "r", "u", "e", "1", "2", "3", "x">>)

\* Container().AddContent(nil, true, 123, "x") rendered.
C14_Witness ==
    /\ Rendered
    /\ Node.tag = <<>>
    /\ Len(Node.content) = 3
    /\ ret.s = <<"t", "r", "u", "e", "1", "2", "3", "x">>

\* ---- the text entities
Contains(needle, hay) == Occurrences(needle, hay) >= 1

\* C15: content passed as a plain string is emitted verbatim, reserved
\* characters included, and the same string wrapped with EscapeString is
\* emitted escaped: the render of Div("a<b>") contains a<b>, the render of
\* Div(EscapeString("a<b>")) contains a&lt;b&gt; and not a<b>.
C15_PlainVerbatimWrappedEscaped ==
    Rendered =>
        /\ (inserted[ret.el].content =
               <<[t |-> "Stringer", k |-> "raw", ref |-> 0, content |-> TextAB]>>
             => Contains(TextAB, ret.s))
        /\ (inserted[ret.el].content =
               <<[t |-> "Stringer", k |-> "esc", ref |-> 0, content |-> TextAB]>>
             => /\ Contains(<<"a", "&", "l", "t", ";", "b", "&", "g", "t", ";">>, ret.s)
                /\ ~Contains(TextAB, ret.s))

\* Div("a<b>") and Div(EscapeString("a<b>")) side by side, the second rendered.
C15_Witness ==
    /\ Rendered
    /\ Len(heap) = 2
    /\ ret.el = 2
    /\ heap[1].content = <<[t |-> "Stringer", k |-> "raw", ref |-> 0, content |-> TextAB]>>
    /\ heap[2].content = <<[t |-> "Stringer", k |-> "esc", ref |-> 0, content |-> TextAB]>>
    /\ ret.s = <<"<", "d", "i", "v", ">", "a", "&", "l", "t", ";", "b", "&", "g", "t", ";",
                 "<", "/", "d", "i", "v", ">">>

\* The entity just rendered, and its render.
EntityRendered == ret.op = "escapeStringEntity.String"

\* The named character reference of each reserved character.
NamedReference(c) ==
    CASE c = "&" -> <<"&", "a", "m", "p", ";">>
      [] c = "<" -> <<"&", "l", "t", ";">>
      [] c = ">" -> <<"&", "g", "t", ";">>
      [] c = "\"" -> <<"&", "q", "u", "o", "t", ";">>
      [] c = "'" -> <<"&", "a", "p", "o", "s", ";">>
      [] OTHER -> <<c>>

\* The reference the two quotes get instead: the numeric one.
Reference(c) ==
    CASE c = "\"" -> <<"&", "#", "3", "4", ";">>
      [] c = "'" -> <<"&", "#", "3", "9", ";">>
      [] OTHER -> NamedReference(c)

\* C16: the escaped-text entity renders its string with each of the five
\* reserved characters & < > " ' replaced by its named character reference
\* and every other character unchanged.
C16_NamedReferences ==
    EntityRendered =>
        ret.s = Flat([i \in 1..Len(ret.v.content) |-> NamedReference(ret.v.content[i])])

\* C16, amended: & < > are replaced by the named references &amp; &lt; &gt;,
\* the quotes " and ' by the numeric references &#34; and &#39;, and every
\* other character is unchanged.
C16_NumericQuoteReferences ==
    EntityRendered =>
        ret.s = Flat([i \in 1..Len(ret.v.content) |-> Reference(ret.v.content[i])])

\* The entity holding "& rendered.
C16_Witness ==
    /\ EntityRendered
    /\ ret.v.content = <<"\"", "&">>
    /\ ret.s = <<"&", "#", "3", "4", ";", "&", "a", "m", "p", ";">>

\* The character references html.UnescapeString decodes that the escaper can
\* write, and the two named ones for the quotes.
Decoded ==
    {[text |-> <<"&", "a", "m", "p", ";">>, c |-> "&"],
     [text |-> <<"&", "l", "t", ";">>, c |-> "<"],
     [text |-> <<"&", "g", "t", ";">>, c |-> ">"],
     [text |-> <<"&", "#", "3", "4", ";">>, c |-> "\""],
     [text |-> <<"&", "#", "3", "9", ";">>, c |-> "'"],
     [text |-> <<"&", "q", "u", "o", "t", ";">>, c |-> "\""],
     [text |-> <<"&", "a", "p", "o", "s", ";">>, c |-> "'"]}

\* html.UnescapeString of the standard library: each reference is replaced by
\* its character, left to right; an & that starts no reference stays.
RECURSIVE UnescapeString(_)
UnescapeString(s) ==
    IF s = <<>> THEN <<>>
    ELSE IF \E r \in Decoded : IsPrefix(r.text, s)
    THEN LET r == CHOOSE r \in Decoded : IsPrefix(r.text, s)
         IN  <<r.c>> \o UnescapeString(SubSeq(s, Len(r.text) + 1, Len(s)))
    ELSE <<Head(s)>> \o UnescapeString(Tail(s))

\* C17: escaping round-trips: for every string s, unescaping the render of
\* the escaped-text entity that EscapeString(s) returns gives back exactly s.
C17_RoundTrip == EntityRendered => UnescapeString(ret.s) = ret.format

\* ---- the document root
\* C18: the render of the document-root element begins with the preamble
\* <!DOCTYPE html> followed immediately by <html, and the preamble occurs
\* exactly once in the whole output, also when a root-type element is nested
\* among the root's descendants.
C18_PreambleOnce ==
    (ret.op = "HtmlElement.String" /\ ret.ok) =>
        /\ IsPrefix(Preamble \o <<"<", "h", "t", "m", "l">>, ret.s)
        /\ Occurrences(Preamble, ret.s) = 1

\* ---- AddAttributes
\* The capabilities AddAttributes probes for.
HasGetAttributes(v) == v.t = "External"
HasString(v) == v.t = "Stringer" \/ (v.t = "External" /\ v.stringer)

\* The attribute entries one argument gives, by the claimed priority order:
\* the strings of the list, else the one rendered string, else the plain
\* string, else nothing; each goes through addAttribute (trimmed, blank
\* names dropped).
Given(h, v) ==
    LET strings == IF HasGetAttributes(v) THEN v.list
                   ELSE IF HasString(v)
                   THEN <<IF v.k = "raw" THEN v.content
                          ELSE IF v.k = "esc" THEN htmlEscaper(v.content)
                          ELSE String(h, v.ref).s>>
                   ELSE IF v.t = "string" THEN <<v.s>>
                   ELSE <<>>
    IN  SelectSeq([i \in 1..Len(strings) |-> TrimSpace(strings[i])], NonBlank)

RECURSIVE AllGiven(_, _)
AllGiven(h, attrs) ==
    IF attrs = <<>> THEN <<>> ELSE Given(h, Head(attrs)) \o AllGiven(h, Tail(attrs))

\* C19: AddAttributes handles each argument by the first matching case of a
\* fixed priority order: a value with a list of attribute strings has each
\* string appended as its own entry; otherwise a value that renders to a
\* string has that one string appended as one entry; otherwise a plain string
\* is appended directly; any other value leaves the attributes unchanged.
C19_PriorityOrder ==
    [][\A id \in Ids : \A attrs \in ExternalArgs(heap) :
          AddAttributes(id, attrs) =>
              /\ heap'[id].attributes = heap[id].attributes \o AllGiven(heap, attrs)
              /\ (\A i \in 1..Len(attrs) : attrs[i].t \in {"int", "bool", "nil"}) =>
                     heap'[id].attributes = heap[id].attributes]_vars

\* AddAttributes(both-capabilities object, 7, raw text e, " f") on a div,
\* rendered: the list wins over String(), 7 adds nothing.
C19_Witness ==
    /\ Rendered
    /\ Node.attributes = <<<<"c">>, <<"d">>, <<"e">>, <<"f">>>>
    /\ ret.s = <<"<", "d", "i", "v", " ", "c", " ", "d", " ", "e", " ", "f", ">",
                 "<", "/", "d", "i", "v", ">">>

\* ---- the boolean-flag setters
\* What one setter, named name, does with no argument and with one.
FlagSet(Setter(_, _), name) ==
    \A id \in Ids :
        /\ Setter(id, NoArgs) => heap'[id].attributes = Append(heap[id].attributes, name)
        /\ Setter(id, Args(<<TRUE>>)) =>
               heap'[id].attributes =
                   Append(heap[id].attributes, name \o <<"=", "\"", "t", "r", "u", "e", "\"">>)
        /\ Setter(id, Args(<<FALSE>>)) =>
               heap'[id].attributes =
                   Append(heap[id].attributes, name \o <<"=", "\"", "f", "a", "l", "s", "e", "\"">>)

\* C20: each of AutoFocus, Inert, SpellCheck and Open called with no
\* argument appends the bare attribute name, and called with one boolean b
\* appends name="true" when b is true and name="false" when b is false.
C20_BooleanFlags ==
    [][/\ FlagSet(AutoFocus, <<"a", "u", "t", "o", "f", "o", "c", "u", "s">>)
       /\ FlagSet(Inert, <<"i", "n", "e", "r", "t">>)
       /\ FlagSet(SpellCheck, <<"s", "p", "e", "l", "l", "c", "h", "e", "c", "k">>)
       /\ FlagSet(Open, <<"o", "p", "e", "n">>)]_vars

\* Details().Open().SpellCheck(false) rendered.
C20_Witness ==
    /\ Rendered
    /\ ret.s = <<"<", "d", "e", "t", "a", "i", "l", "s", " ", "o", "p", "e", "n", " ",
                 "s", "p", "e", "l", "l", "c", "h", "e", "c", "k", "=", "\"",
                 "f", "a", "l", "s", "e", "\"", ">",
                 "<", "/", "d", "e", "t", "a", "i", "l", "s", ">">>

\* ---- the enumerated setters
\* The recognized tokens of each enumerated attribute.
EditableTokens == {<<"t", "r", "u", "e">>, <<"f", "a", "l", "s", "e">>, <<"p", "l", "a", "i", "n", "t", "e", "x", "t", "-", "o", "n", "l", "y">>}
DirTokens == {<<"l", "t", "r">>, <<"r", "t", "l">>, <<"a", "u", "t", "o">>}
TranslateTokens == {<<"y", "e", "s">>, <<"n", "o">>}
CapitalizeTokens == {<<"n", "o", "n", "e">>, <<"o", "f", "f">>, <<"s", "e", "n", "t", "e", "n", "c", "e", "s">>, <<"o", "n">>, <<"w", "o", "r", "d", "s">>, <<"c", "h", "a", "r", "a", "c", "t", "e", "r", "s">>}

\* The value trimmed and lowercased, written out for the values passed.
Normalized21(value) ==
    CASE value = <<" ", "T", "R", "U", "E", " ">> -> <<"t", "r", "u", "e">>
      [] value = <<"F", "a", "l", "s", "e">> -> <<"f", "a", "l", "s", "e">>
      [] value = <<"R", "T", "L">> -> <<"r", "t", "l">>
      [] value = <<" ", "a", "u", "t", "o">> -> <<"a", "u", "t", "o">>
      [] value = <<"Y", "E", "S">> -> <<"y", "e", "s">>
      [] value = <<"O", "n">> -> <<"o", "n">>
      [] OTHER -> value

\* name="normalized" appended when the normalized value is a token, else the
\* bare name.
EnumeratedAppend(id, name, value, tokens) ==
    heap'[id].attributes =
        Append(heap[id].attributes,
               IF Normalized21(value) \in tokens
               THEN name \o <<"=", "\"">> \o Normalized21(value) \o <<"\"">>
               ELSE name)

\* name="value" appended with the value as it was passed.
VerbatimAppend(id, name, value) ==
    heap'[id].attributes =
        Append(heap[id].attributes, name \o <<"=", "\"">> \o value \o <<"\"">>)

EditableNormalized ==
    \A id \in Ids : \A value \in EditableValues :
        ContentEditable(id, Args(<<value>>)) =>
            EnumeratedAppend(id, <<"c", "o", "n", "t", "e", "n", "t", "e", "d", "i", "t", "a", "b", "l", "e">>, value, EditableTokens)

C22_NoOperationFails == ret.ok

\* The attribute name On gives an event name: lowercased, with the prefix on
\* unless it is there already; written out for the names passed.
EventAttribute(eventName) ==
    CASE eventName \in {<<"c", "l", "i", "c", "k">>, <<"o", "n", "c", "l", "i", "c", "k">>, <<"O", "n", "C", "l", "i", "c", "k">>} -> <<"o", "n", "c", "l", "i", "c", "k">>
      [] eventName = <<"x">> -> <<"o", "n", "x">>
      [] eventName = <<>> -> <<"o", "n">>

\* C27: On(eventName, script) lowercases the event name and appends exactly
\* one attribute on<name>="script", the prefix on added when the lowercased
\* name does not begin with it and not added a second time when it does:
\* On("click", s), On("onclick", s) and On("OnClick", s) append onclick="s".
C27_OnAppendsHandler ==
    [][\A id \in Ids : \A eventName \in EventNames : \A script \in Scripts :
          On(id, eventName, script) =>
              heap'[id].attributes =
                  Append(heap[id].attributes,
                         EventAttribute(eventName) \o <<"=", "\"">> \o script \o <<"\"">>)]_vars

\* ---- the tree
\* The places where the element at id is held as content: <<parent, index>>.
Holders(id) ==
    UNION {{<<p, k>> : k \in {k \in 1..Len(heap[p].content) :
                                 heap[p].content[k] = [t |-> "Stringer", k |-> "el",
                                                       ref |-> id, content |-> <<>>]}}
           : p \in Ids}

\* C23: nodes are never shared or aliased: after any sequence of constructor,
\* setter and AddContent calls every node is referenced from at most one
\* child list and at most once in it.
C23_NoSharing == \A id \in Ids : Cardinality(Holders(id)) <= 1

\* C28: render terminates for every node reachable by any sequence of
\* constructor and AddContent calls, also when an element is added as content
\* of itself or of one of its own descendants.
C28_RenderTerminates == ret.op \in StringOps => ret.ok

\* ---- concurrent renders
Reading == ret.op = "readers"

\* C24: on a tree that no process mutates, concurrent render calls,
\* interleaved in any order, each return the string a render run alone
\* returns, and the tree is unchanged afterwards.
C24_ConcurrentRenders ==
    /\ [](Reading =>
            \A r \in Readers :
                ret.readers[r].state = "done" =>
                    /\ String(heap, ret.readers[r].el).ok
                    /\ ret.readers[r].out = String(heap, ret.readers[r].el).s)
    /\ [][Reading => (heap' = heap /\ inserted' = inserted)]_vars

\* Two renders of a parent with an element child interleaved: one is through,
\* the other has written a part and has more to write.
C24_Witness ==
    /\ Reading
    /\ \E r, q \in Readers :
           /\ ret.readers[r].state = "done"
           /\ ret.readers[q].state = "running"
           /\ ret.readers[q].el = ret.readers[r].el
           /\ ret.readers[q].out # <<>>
           /\ \E i \in 1..Len(ret.readers[q].todo) : ret.readers[q].todo[i].t = "Stringer"
           /\ Len(ret.readers[r].out) > Len(ret.readers[q].out)

\* ---- the two ways of adding content
\* The element at id as its constructor made it when called with content xs.
Constructed(id, xs) == newElement(heap[id].typ, heap[id].tag, heap[id].hasClosingTag, xs)

NonVoid(id) == heap[id].hasClosingTag \/ heap[id].tag = <<>>

\* C25: the two mechanisms for adding content are equivalent: E(xs...) and
\* E().AddContent(xs...) leave the node with the same content list and render
\* the same string, and E(xs...).AddContent(ys...) has the content of xs
\* followed by ys.
C25_TwoMechanisms ==
    [][\A id \in Ids : \A xs \in MoreContent(heap) :
          (AddContent(id, xs) /\ NonVoid(id)) =>
              /\ heap'[id].content = heap[id].content \o Constructed(id, xs).content
              /\ heap[id].content = <<>> =>
                     /\ heap'[id].content = Constructed(id, xs).content
                     /\ (heap[id] = Constructed(id, <<>>) =>
                            String(heap', id) =
                                String([heap EXCEPT ![id] = Constructed(id, xs)], id))]_vars

\* Div("a").AddContent(nil, true, 123, "x"): the constructor's content, then
\* the added one.
C25_Witness ==
    /\ ret.op = "AddContent"
    /\ Len(heap) = 1
    /\ heap[1].tag = TagDiv
    /\ heap[1].content =
           <<[t |-> "Stringer", k |-> "raw", ref |-> 0, content |-> <<"a">>]>>
           \o Normalized(Mixed)

\* ---- chaining
\* The call on the element at id has returned that element.
ReturnsIt(id) == ret'.ok /\ ret'.el = id

\* Nothing but the one list of the one node may have changed.
OnlyChanges(id, list) == heap' = [heap EXCEPT ![id][list] = heap'[id][list]]

\* C26: every chainable setter (attribute setters, Class, Style,
\* AddAttributes, On, AddContent) returns the very element it was called on
\* and changes only the one list it targets on that element's node: an
\* attribute setter only attributes, Class only classes, Style only styles,
\* AddContent only content; no other node is modified.
C26_SettersFrame ==
    [][\A id \in Ids :
          /\ \A a \in AttrArgs :
                 AddAttribute(id, a[1], a[2]) =>
                     ReturnsIt(id) /\ OnlyChanges(id, "attributes")
          /\ \A text \in ClassArgs :
                 Class(id, text) => ReturnsIt(id) /\ OnlyChanges(id, "classes")
          /\ \A text \in StyleArgs :
                 Style(id, text) => ReturnsIt(id) /\ OnlyChanges(id, "styles")
          /\ \A content \in MoreContent(heap) :
                 AddContent(id, content) => ReturnsIt(id) /\ OnlyChanges(id, "content")
          /\ \A attrs \in ExternalArgs(heap) :
                 AddAttributes(id, attrs) => ReturnsIt(id) /\ OnlyChanges(id, "attributes")
          /\ \A eventName \in EventNames : \A script \in Scripts :
                 On(id, eventName, script) =>
                     ReturnsIt(id) /\ OnlyChanges(id, "attributes")]_vars

\* ---- the escaper's output
Reserved == {"&", "<", ">", "\"", "'"}

\* The five references the escaper emits.
Emitted ==
    {<<"&", "a", "m", "p", ";">>, <<"&", "l", "t", ";">>, <<"&", "g", "t", ";">>,
     <<"&", "#", "3", "4", ";">>, <<"&", "#", "3", "9", ";">>}

CountIn(set, s) == Cardinality({i \in 1..Len(s) : s[i] \in set})

\* What is left of an output when the emitted references are taken out.
RECURSIVE Rest(_)
Rest(s) ==
    IF s = <<>> THEN <<>>
    ELSE IF \E ref \in Emitted : IsPrefix(ref, s)
    THEN LET ref == CHOOSE ref \in Emitted : IsPrefix(ref, s)
         IN  Rest(SubSeq(s, Len(ref) + 1, Len(s)))
    ELSE <<Head(s)>> \o Rest(Tail(s))

NotReserved(c) == c \notin Reserved

\* C29: for every input string the render of the escaped-text entity holds
\* none of < > " ', every & in it is the first character of one of the five
\* references the escaper emits, and escaping is a single pass: each reserved
\* character of the input gives one reference, whose & is not escaped again.
C29_EscapedOutputSafe ==
    EntityRendered =>
        /\ \A i \in 1..Len(ret.s) : ret.s[i] \notin {"<", ">", "\"", "'"}
        /\ \A i \in 1..Len(ret.s) :
               ret.s[i] = "&" =>
                   \E ref \in Emitted : IsPrefix(ref, SubSeq(ret.s, i, Len(ret.s)))
        /\ CountIn({"&"}, ret.s) = CountIn(Reserved, ret.v.content)
        /\ Rest(ret.s) = SelectSeq(ret.v.content, NotReserved)

\* The entity holding &< rendered: &amp;&lt;
C29_Witness ==
    /\ EntityRendered
    /\ ret.v.content = <<"&", "<">>
    /\ ret.s = <<"&", "a", "m", "p", ";", "&", "l", "t", ";">>

\* ---- children by reference
\* The parents of the element at c other than itself: elements that write
\* their content, whose render returns before and after the step.
Parents(c) ==
    {p \in Ids \ {c} :
        /\ NonVoid(p)
        /\ \E k \in 1..Len(heap[p].content) :
               heap[p].content[k] = [t |-> "Stringer", k |-> "el", ref |-> c, content |-> <<>>]
        /\ String(heap, p).ok
        /\ String(heap', p).ok}

\* The next render of every parent shows the child as the call left it, and
\* no longer as it was when the call has changed what the child renders.
Reflected(c, child) ==
    \A p \in Parents(c) :
        /\ String(heap', p) = String([heap EXCEPT ![c] = child], p)
        /\ String([heap EXCEPT ![c] = child], c) # String(heap, c) =>
               String(heap', p) # String(heap, p)

\* Content that is no element renders after the step as it did before.
TextsFixed ==
    \A id \in Ids : \A k \in 1..Len(heap[id].content) :
        /\ heap'[id].content[k] = heap[id].content[k]
        /\ heap[id].content[k].k \in {"raw", "esc"} =>
               StringerString(heap', heap'[id].content[k], 0)
                   = StringerString(heap, heap[id].content[k], 0)

\* The attribute, class and style setters belong to the tagged elements; the
\* untagged Container has AddContent alone.
Tagged(c) == heap[c].tag # <<>>

\* C30: a parent holds its element children by reference, not as a rendered
\* snapshot: when a child element is mutated (attribute, class, style or
\* content added) after it was added to a parent, the next render of the
\* parent reflects the child's new state, while string and other
\* non-renderable content is fixed at the time it was added.
C30_ChildrenByReference ==
    [][/\ TextsFixed
       /\ \A c \in Ids :
              /\ ret'.op = "addAttribute" =>
                     \A a \in AttrArgs :
                         (AddAttribute(c, a[1], a[2]) /\ ~Blank(a[1]) /\ Tagged(c)) =>
                             Reflected(c, addAttribute(heap[c], a[1], a[2]))
              /\ ret'.op = "Class" =>
                     \A text \in ClassArgs :
                         (Class(c, text) /\ Tagged(c)) =>
                             Reflected(c, addClasses(heap[c], text))
              /\ ret'.op = "Style" =>
                     \A text \in StyleArgs :
                         (Style(c, text) /\ Tagged(c)) =>
                             Reflected(c, addStyles(heap[c], text))
              /\ ret'.op = "AddContent" =>
                     \A content \in MoreContent(heap) :
                         (AddContent(c, content) /\ NonVoid(c)) =>
                             Reflected(c, addContent(heap[c], content))]_vars

\* Div() held by a second Div, then given an attribute: the setter is the
\* last call made.
C30_Witness ==
    /\ ret.op = "addAttribute"
    /\ ret.el = 1
    /\ Len(heap) = 2
    /\ ops = 3
    /\ heap[2].content = <<[t |-> "Stringer", k |-> "el", ref |-> 1, content |-> <<>>]>>
    /\ Len(heap[1].attributes) = 1
    /\ heap[1].content = <<[t |-> "Stringer", k |-> "raw", ref |-> 0, content |-> <<"a">>]>>

====
